---- MODULE Spec2Model ----
(***************************************************************************)
(* A model of src/app.py: the ticker-universe fallback chain               *)
(* (get_nifty500_tickers), the price-history normalizer                    *)
(* (fetch_price_history) and the indicator engine                          *)
(* (add_technical_indicators).                                             *)
(*                                                                         *)
(* Text is a sequence of one-character strings, so that lower-casing,      *)
(* stripping, joining and substring search are computed, not assumed.      *)
(* A table cell is a record [k, n, d, s]: a number n/d in lowest terms     *)
(* (k = "num"), a missing value (k = "nan"), an infinity of sign n         *)
(* (k = "inf") or a text s (k = "str").  Floating-point arithmetic is      *)
(* modelled by exact rational arithmetic with the IEEE rules for NaN,      *)
(* infinities and division by zero; rounding is not modelled.              *)
(***************************************************************************)
EXTENDS Integers, Sequences, FiniteSets, TLC

VARIABLES
    feed,       \* what the quote provider answers: download, history, table
    pc,         \* position in the price pipeline
    df,         \* the frame fetch_price_history returned
    d,          \* the frame add_technical_indicators works on and returns
    escaped,    \* the functions an exception has escaped from
    src,        \* what the two ticker sources answer: csv, wiki
    cols_map,   \* the dict cols_map of fetch_price_history, as <<label, name>> pairs
    tpc,        \* position in get_nifty500_tickers
    consulted,  \* the ticker sources consulted so far, in order
    tickers     \* the list get_nifty500_tickers returned

vars == <<feed, pc, df, d, cols_map, escaped, src, tpc, consulted, tickers>>
priceVars == <<feed, pc, df, d, cols_map>>
tickerVars == <<src, tpc, consulted, tickers>>

(***************************************************************************)
(* Text                                                                    *)
(***************************************************************************)
UpperChars == <<"A","B","C","D","E","F","G","H","I","J","K","L","M",
                "N","O","P","Q","R","S","T","U","V","W","X","Y","Z">>
LowerChars == <<"a","b","c","d","e","f","g","h","i","j","k","l","m",
                "n","o","p","q","r","s","t","u","v","w","x","y","z">>
DigitChars == <<"0","1","2","3","4","5","6","7","8","9">>

LowerChar(c) ==
    IF \E i \in 1..Len(UpperChars) : UpperChars[i] = c
    THEN LowerChars[CHOOSE i \in 1..Len(UpperChars) : UpperChars[i] = c]
    ELSE c

\* str.lower()
Lower(s) == [i \in 1..Len(s) |-> LowerChar(s[i])]

\* sub in s
Contains(sub, s) ==
    \E k \in 0..(Len(s) - Len(sub)) : \A j \in 1..Len(sub) : s[k + j] = sub[j]

\* s.endswith(suffix)
EndsWith(s, suffix) ==
    /\ Len(suffix) <= Len(s)
    /\ \A j \in 1..Len(suffix) : s[Len(s) - Len(suffix) + j] = suffix[j]

\* str.strip()
RECURSIVE Strip(_)
Strip(s) ==
    IF s = <<>> THEN s
    ELSE IF Head(s) = " " THEN Strip(Tail(s))
    ELSE IF s[Len(s)] = " " THEN Strip(SubSeq(s, 1, Len(s) - 1))
    ELSE s

\* " ".join(parts)
RECURSIVE Join(_)
Join(parts) ==
    IF parts = <<>> THEN <<>>
    ELSE IF Len(parts) = 1 THEN parts[1]
    ELSE parts[1] \o <<" ">> \o Join(Tail(parts))

(***************************************************************************)
(* Numbers                                                                 *)
(***************************************************************************)
Abs(i) == IF i < 0 THEN -i ELSE i
Sign(i) == IF i < 0 THEN -1 ELSE IF i > 0 THEN 1 ELSE 0

RECURSIVE GCD(_, _)
GCD(a, b) == IF b = 0 THEN a ELSE GCD(b, a % b)

NaN == [k |-> "nan", n |-> 0, d |-> 1, s |-> <<>>]
Inf(sg) == [k |-> "inf", n |-> sg, d |-> 1, s |-> <<>>]
Text(t) == [k |-> "str", n |-> 0, d |-> 1, s |-> t]

\* the number n/d (d # 0), in lowest terms with a positive denominator
Q(n, dd) ==
    LET g == GCD(Abs(n), Abs(dd))
    IN [k |-> "num", n |-> Sign(dd) * (n \div g), d |-> Abs(dd) \div g, s |-> <<>>]

Num(i) == Q(i, 1)
IsNaN(x) == x.k = "nan"
IsNum(x) == x.k = "num"
IsZero(x) == x.k = "num" /\ x.n = 0

Neg(x) ==
    IF x.k = "num" THEN Q(-x.n, x.d)
    ELSE IF x.k = "inf" THEN Inf(-x.n)
    ELSE NaN

Add(x, y) ==
    IF x.k = "num" /\ y.k = "num"
    THEN LET g == GCD(x.d, y.d)
         IN Q(x.n * (y.d \div g) + y.n * (x.d \div g), (x.d \div g) * y.d)
    ELSE IF x.k = "inf" /\ y.k = "num" THEN x
    ELSE IF x.k = "num" /\ y.k = "inf" THEN y
    ELSE IF x.k = "inf" /\ y.k = "inf" /\ x.n = y.n THEN x
    ELSE NaN

Sub(x, y) == Add(x, Neg(y))

Mul(x, y) ==
    IF x.k = "num" /\ y.k = "num"
    THEN LET g == GCD(Abs(x.n), y.d)
             h == GCD(Abs(y.n), x.d)
         IN Q((x.n \div g) * (y.n \div h), (x.d \div h) * (y.d \div g))
    ELSE IF x.k \in {"num", "inf"} /\ y.k \in {"num", "inf"}
              /\ Sign(x.n) # 0 /\ Sign(y.n) # 0
         THEN Inf(Sign(x.n) * Sign(y.n))
    ELSE NaN

\* IEEE division, as numpy does it: x/0 is an infinity, 0/0 is NaN
Div(x, y) ==
    IF x.k = "num" /\ y.k = "num"
    THEN IF y.n # 0
         THEN LET g == GCD(Abs(x.n), Abs(y.n))
                  h == GCD(x.d, y.d)
              IN Q((x.n \div g) * (y.d \div h), (x.d \div h) * (y.n \div g))
         ELSE IF x.n = 0 THEN NaN ELSE Inf(Sign(x.n))
    ELSE IF x.k = "num" /\ y.k = "inf" THEN Num(0)
    ELSE IF x.k = "inf" /\ y.k = "num"
         THEN Inf(x.n * (IF y.n < 0 THEN -1 ELSE 1))
    ELSE NaN

Less(x, y) == x.k = "num" /\ y.k = "num" /\ x.n * y.d < y.n * x.d

\* int(s) for a text of decimal digits
RECURSIVE DigitsValue(_)
DigitsValue(s) ==
    IF s = <<>> THEN 0
    ELSE 10 * DigitsValue(SubSeq(s, 1, Len(s) - 1))
         + (CHOOSE v \in 0..9 : DigitChars[v + 1] = s[Len(s)])

IsDigits(s) ==
    /\ s # <<>>
    /\ \A i \in 1..Len(s) : \E v \in 1..10 : DigitChars[v] = s[i]

\* pd.to_numeric(x, errors="coerce") on one cell: a number stays, a text
\* that parses becomes its number, anything else becomes NaN
ToNumericCell(x) ==
    IF x.k \in {"num", "inf"} THEN x
    ELSE IF x.k = "str" /\ IsDigits(x.s) THEN Num(DigitsValue(x.s))
    ELSE NaN

ToNumeric(series) == [i \in 1..Len(series) |-> ToNumericCell(series[i])]

(***************************************************************************)
(* Frames: a pandas DataFrame is its column labels and, per column, the    *)
(* series of its cells.  pd.DataFrame() has no columns and no rows.        *)
(***************************************************************************)
EmptyFrame == [columns |-> <<>>, data |-> <<>>]

NRows(f) == IF f.columns = <<>> THEN 0 ELSE Len(f.data[1])

\* df.empty
IsEmpty(f) == f.columns = <<>> \/ NRows(f) = 0

CountCol(f, name) == Cardinality({j \in 1..Len(f.columns) : f.columns[j] = name})

HasCol(f, name) == \E j \in 1..Len(f.columns) : f.columns[j] = name

ColIdx(f, name) ==
    CHOOSE j \in 1..Len(f.columns) :
        /\ f.columns[j] = name
        /\ \A i \in 1..(j - 1) : f.columns[i] # name

\* df[name], for a label that names one column
Col(f, name) == f.data[ColIdx(f, name)]

\* df[name] = series: replaces the column, or appends a new one
SetCol(f, name, series) ==
    IF HasCol(f, name)
    THEN [f EXCEPT !.data[ColIdx(f, name)] = series]
    ELSE [columns |-> Append(f.columns, name), data |-> Append(f.data, series)]

(***************************************************************************)
(* Series primitives of pandas used by add_technical_indicators            *)
(***************************************************************************)
\* Series.rolling(window=w, min_periods=minp).mean(): pandas slides the
\* window keeping the sum and the count of the observations in it; NaN is
\* no observation
RollAdd(p, v) ==
    IF IsNaN(v) THEN p
    ELSE [sum |-> Add(p.sum, v), nobs |-> p.nobs + 1, out |-> p.out]

RollRemove(p, v) ==
    IF IsNaN(v) THEN p
    ELSE [sum |-> Sub(p.sum, v), nobs |-> p.nobs - 1, out |-> p.out]

RollEmit(p, minp) ==
    [sum |-> p.sum, nobs |-> p.nobs,
     out |-> Append(p.out, IF p.nobs >= minp /\ p.nobs > 0
                           THEN Div(p.sum, Num(p.nobs))
                           ELSE NaN)]

\* the loop body for bar i: add it, drop the bar that left the window,
\* emit the mean
RollStep(p, x, w, minp, i) ==
    RollEmit(RollRemove(RollAdd(p, x[i]), IF i > w THEN x[i - w] ELSE NaN), minp)

\* the loop over the bars lo..hi, started in state p
RECURSIVE RollRun(_, _, _, _, _, _)
RollRun(p, x, w, minp, lo, hi) ==
    IF lo > hi THEN p
    ELSE IF lo = hi THEN RollStep(p, x, w, minp, lo)
    ELSE LET half == RollRun(p, x, w, minp, lo, (lo + hi) \div 2)
         IN IF half.nobs >= 0
            THEN RollRun(half, x, w, minp, (lo + hi) \div 2 + 1, hi)
            ELSE half

RollingMean(x, w, minp) ==
    RollRun([sum |-> Num(0), nobs |-> 0, out |-> <<>>], x, w, minp, 1, Len(x)).out

\* the weighted mean after an observation cur that differs from it
EwmBlend(weighted, cur, old_wt, new_wt) ==
    Div(Add(Mul(old_wt, weighted), Mul(new_wt, cur)), Add(old_wt, new_wt))

\* one step of pandas' ewm loop (ignore_na=False) on the value cur, given
\* the decayed weight old_wt = st.old_wt * (1 - alpha)
EwmAdvance(st, cur, old_wt, new_wt, adjust, nobs) ==
    IF ~IsNaN(st.weighted)
    THEN IF ~IsNaN(cur)
         THEN [weighted |-> IF st.weighted # cur
                            THEN EwmBlend(st.weighted, cur, old_wt, new_wt)
                            ELSE st.weighted,
               old_wt |-> IF adjust THEN Add(old_wt, new_wt) ELSE Num(1),
               nobs |-> nobs]
         ELSE [weighted |-> st.weighted, old_wt |-> old_wt, nobs |-> nobs]
    ELSE [weighted |-> IF ~IsNaN(cur) THEN cur ELSE st.weighted,
          old_wt |-> st.old_wt, nobs |-> nobs]

EwmStep(st, cur, alpha, adjust) ==
    EwmAdvance(st, cur, Mul(st.old_wt, Sub(Num(1), alpha)),
               IF adjust THEN Num(1) ELSE alpha, adjust,
               st.nobs + (IF IsNaN(cur) THEN 0 ELSE 1))

\* output[i] = weighted if nobs >= minp else NaN, with minp = 1
EwmEmit(out, st) ==
    [weighted |-> st.weighted, old_wt |-> st.old_wt, nobs |-> st.nobs,
     out |-> Append(out, IF st.nobs >= 1 THEN st.weighted ELSE NaN)]

EwmNext(p, cur, alpha, adjust) == EwmEmit(p.out, EwmStep(p, cur, alpha, adjust))

RECURSIVE EwmRun(_, _, _, _)
EwmRun(x, alpha, adjust, i) ==
    IF i = 1
    THEN [weighted |-> x[1], old_wt |-> Num(1),
          nobs |-> IF IsNaN(x[1]) THEN 0 ELSE 1,
          out |-> <<x[1]>>]
    ELSE EwmNext(EwmRun(x, alpha, adjust, i - 1), x[i], alpha, adjust)

EwmAdjusted(x, span) ==
    IF x = <<>> THEN <<>> ELSE EwmRun(x, Q(2, span + 1), TRUE, Len(x)).out

\* Series.ewm(span=span, adjust=False).mean()
EwmMean(x, span) ==
    IF x = <<>> THEN <<>> ELSE EwmRun(x, Q(2, span + 1), FALSE, Len(x)).out

\* Series.diff()
Diff(x) == [i \in 1..Len(x) |-> IF i = 1 THEN NaN ELSE Sub(x[i], x[i - 1])]

\* Series.clip(lower=0) and Series.clip(upper=0); NaN stays NaN
ClipLower(x) == [i \in 1..Len(x) |-> IF Less(x[i], Num(0)) THEN Num(0) ELSE x[i]]
ClipUpper(x) == [i \in 1..Len(x) |-> IF Less(Num(0), x[i]) THEN Num(0) ELSE x[i]]

NegSeries(x) == [i \in 1..Len(x) |-> Neg(x[i])]
SubSeries(x, y) == [i \in 1..Len(x) |-> Sub(x[i], y[i])]
DivSeries(x, y) == [i \in 1..Len(x) |-> Div(x[i], y[i])]

\* Series.replace(0, np.nan)
ReplaceZero(x) == [i \in 1..Len(x) |-> IF IsZero(x[i]) THEN NaN ELSE x[i]]

(***************************************************************************)
(* Column labels                                                           *)
(***************************************************************************)
S_Date == <<"D","a","t","e">>
S_Open == <<"O","p","e","n">>
S_High == <<"H","i","g","h">>
S_Low == <<"L","o","w">>
S_Close == <<"C","l","o","s","e">>
S_AdjClose == <<"A","d","j"," ","C","l","o","s","e">>
S_Volume == <<"V","o","l","u","m","e">>
S_SMA20 == <<"S","M","A","2","0">>
S_SMA50 == <<"S","M","A","5","0">>
S_SMA200 == <<"S","M","A","2","0","0">>
S_EMA20 == <<"E","M","A","2","0">>
S_EMA50 == <<"E","M","A","5","0">>
S_RSI14 == <<"R","S","I","1","4">>
S_MACD == <<"M","A","C","D">>
S_MACD_signal == <<"M","A","C","D","_","s","i","g","n","a","l">>
S_MACD_hist == <<"M","A","C","D","_","h","i","s","t">>

(***************************************************************************)
(* add_technical_indicators                                                *)
(***************************************************************************)
Win20 == 20
Win50 == 50
Win200 == 200
Span20 == 20
Span50 == 50
RsiSpan == 14
MacdFast == 12
MacdSlow == 26
MacdSignal == 9

\* rolling(window=w, min_periods=W).mean(): the pandas default, which
\* leaves the first w-1 points undefined
SmaFullWindow(close, w) == RollingMean(close, w, w)

\* close.rolling(window=w, min_periods=1).mean()
Sma(close, w) == RollingMean(close, w, 1)

\* line 221: close = pd.to_numeric(d["Close"], errors="coerce")
CloseOf(f) == ToNumeric(Col(f, S_Close))

WithSma(f, close) ==
    SetCol(SetCol(SetCol(f, S_SMA20, Sma(close, Win20)),
                  S_SMA50, Sma(close, Win50)),
           S_SMA200, Sma(close, Win200))

\* lines 221-224: the close series and the three SMA columns
SmaColumns(f) == WithSma(f, CloseOf(f))

\* roll_up / roll_down, with no guard against a zero average loss
RsNoGuard(roll_up, roll_down) == DivSeries(roll_up, roll_down)

\* rs = roll_up / roll_down.replace(0, np.nan)
Rs(roll_up, roll_down) == DivSeries(roll_up, ReplaceZero(roll_down))

\* line 235: 100 - (100 / (1 + rs))
RsiOf(rs) ==
    [i \in 1..Len(rs) |-> Sub(Num(100), Div(Num(100), Add(Num(1), rs[i])))]

\* lines 230-235, from delta = close.diff()
RsiFromDelta(delta) ==
    RsiOf(Rs(EwmMean(ClipLower(delta), RsiSpan),
             EwmMean(NegSeries(ClipUpper(delta)), RsiSpan)))

\* lines 228-235
Rsi14(close) == RsiFromDelta(Diff(close))

\* an engine that leaves MACD undefined until a second bar exists
MacdLineFromDelta(close) ==
    [i \in 1..Len(close) |->
        IF Len(close) < 2 THEN NaN
        ELSE Sub(EwmMean(close, MacdFast)[i], EwmMean(close, MacdSlow)[i])]

\* lines 238-240: d["MACD"] = ema12 - ema26
MacdLine(close) == SubSeries(EwmMean(close, MacdFast), EwmMean(close, MacdSlow))

\* lines 225-226
WithEma(f, close) ==
    SetCol(SetCol(f, S_EMA20, EwmMean(close, Span20)),
           S_EMA50, EwmMean(close, Span50))

\* lines 229-235
WithRsi(f, close) == SetCol(f, S_RSI14, Rsi14(close))

\* lines 238-240
WithMacd(f, close) == SetCol(f, S_MACD, MacdLine(close))

\* line 241: d["MACD_signal"] = d["MACD"].ewm(span=9, adjust=False).mean()
WithSignal(f) == SetCol(f, S_MACD_signal, EwmMean(Col(f, S_MACD), MacdSignal))

\* line 242: d["MACD_hist"] = d["MACD"] - d["MACD_signal"]
WithHist(f) ==
    SetCol(f, S_MACD_hist, SubSeries(Col(f, S_MACD), Col(f, S_MACD_signal)))

\* lines 225-242: the EMA, RSI and MACD columns
EwColumns(f) ==
    WithHist(WithSignal(WithMacd(WithRsi(WithEma(f, CloseOf(f)), CloseOf(f)),
                                 CloseOf(f))))

(***************************************************************************)
(* fetch_price_history                                                     *)
(***************************************************************************)
S_Datetime == <<"D","a","t","e","t","i","m","e">>
S_index == <<"i","n","d","e","x">>
\* Python's None, as a label or a level of a label
None == <<"None">>

K_open == <<"o","p","e","n">>
K_high == <<"h","i","g","h">>
K_low == <<"l","o","w">>
K_adj == <<"a","d","j">>
K_close == <<"c","l","o","s","e">>
K_volume == <<"v","o","l","u","m","e">>

\* line 102: " ".join([str(x) for x in col if x is not None]).strip()
FlattenLabel(col) ==
    Strip(Join(SelectSeq(col, LAMBDA x : x # None)))

\* lines 101-102
Flatten(t) ==
    IF t.multi
    THEN [j \in 1..Len(t.columns) |-> FlattenLabel(t.columns[j])]
    ELSE t.columns

\* the same rules with "close" tested before "low"
ColsMapCloseFirst(c) ==
    LET cl == Lower(c)
    IN IF Contains(K_open, cl) /\ ~Contains(K_adj, cl) THEN S_Open
       ELSE IF Contains(K_high, cl) THEN S_High
       ELSE IF Contains(K_adj, cl) /\ Contains(K_close, cl) THEN S_AdjClose
       ELSE IF Contains(K_close, cl) THEN S_Close
       ELSE IF Contains(K_low, cl) /\ ~Contains(K_adj, cl) THEN S_Low
       ELSE IF Contains(K_volume, cl) THEN S_Volume
       ELSE c

\* lines 106-121: the entry of cols_map for the label c
ColsMap(c) ==
    LET cl == Lower(c)
    IN IF Contains(K_open, cl) /\ ~Contains(K_adj, cl) THEN S_Open
       ELSE IF Contains(K_high, cl) THEN S_High
       ELSE IF Contains(K_low, cl) /\ ~Contains(K_adj, cl) THEN S_Low
       ELSE IF Contains(K_adj, cl) /\ Contains(K_close, cl) THEN S_AdjClose
       ELSE IF Contains(K_close, cl) THEN S_Close
       ELSE IF Contains(K_volume, cl) THEN S_Volume
       ELSE c

\* line 122: df.rename(columns=cols_map)
Rename(columns) == [j \in 1..Len(columns) |-> ColsMap(columns[j])]

\* lines 125-126: reqs.issubset(set(df.columns))
ReqsPresent(columns) ==
    \A r \in {S_Open, S_High, S_Low, S_Close} :
        \E j \in 1..Len(columns) : columns[j] = r

\* the rows of f at the positions keep, in that order
SelectRows(f, keep) ==
    [columns |-> f.columns,
     data |-> [j \in 1..Len(f.columns) |->
                  [i \in 1..Len(keep) |-> f.data[j][keep[i]]]]]

\* the positions 1..n that are in the set ok, ascending
RECURSIVE Positions(_, _)
Positions(n, ok) ==
    IF n = 0 THEN <<>>
    ELSE IF n \in ok THEN Append(Positions(n - 1, ok), n)
    ELSE Positions(n - 1, ok)

Raised == [raised |-> TRUE, frame |-> EmptyFrame]
Returned(f) == [raised |-> FALSE, frame |-> f]

\* reset_index followed by drop_duplicates(subset="Date", keep="last")
ResetIndexKeepLast(f, t) ==
    LET g == [columns |-> <<S_Date>> \o f.columns, data |-> <<t.index>> \o f.data]
        last == {i \in 1..Len(t.index) :
                    \A k \in (i + 1)..Len(t.index) : t.index[k] # t.index[i]}
    IN Returned(SelectRows(g, Positions(Len(t.index), last)))

\* lines 129-134: df.reset_index() puts the index first, under its name
\* ("index" when it has none) and fails when a column has that name
\* already; the first column is then renamed "Date"
ResetIndex(f, t) ==
    LET name == IF t.index_name = None THEN S_index ELSE t.index_name
    IN IF HasCol(f, name) THEN Raised
       ELSE Returned([columns |-> <<S_Date>> \o f.columns,
                      data |-> <<t.index>> \o f.data])

\* df[col] = pd.to_numeric(df[col], errors="coerce"): a label naming two
\* columns selects a frame, on which to_numeric raises TypeError
CoerceCol(r, col) ==
    IF r.raised \/ CountCol(r.frame, col) # 1 THEN Raised
    ELSE Returned(SetCol(r.frame, col, ToNumeric(Col(r.frame, col))))

\* numeric coercion followed by dropna(subset=[Open, High, Low, Close])
CoercePricesDropna(f) ==
    LET r == CoerceCol(CoerceCol(CoerceCol(CoerceCol(Returned(f),
                 S_Open), S_High), S_Low), S_Close)
        whole == {i \in 1..NRows(r.frame) :
                     \A c \in {S_Open, S_High, S_Low, S_Close} :
                         ~IsNaN(Col(r.frame, c)[i])}
    IN IF r.raised THEN Raised
       ELSE Returned(SelectRows(r.frame, Positions(NRows(r.frame), whole)))

\* lines 137-138
CoercePrices(f) ==
    CoerceCol(CoerceCol(CoerceCol(CoerceCol(Returned(f),
        S_Open), S_High), S_Low), S_Close)

\* Series.fillna(0)
FillZero(x) == [i \in 1..Len(x) |-> IF IsNaN(x[i]) THEN Num(0) ELSE x[i]]

\* lines 139-142
CoerceVolume(f) ==
    IF HasCol(f, S_Volume)
    THEN IF CountCol(f, S_Volume) # 1 THEN Raised
         ELSE Returned(SetCol(f, S_Volume, FillZero(ToNumeric(Col(f, S_Volume)))))
    ELSE Returned(SetCol(f, S_Volume, [i \in 1..NRows(f) |-> Num(0)]))

\* lines 100-144, on a table that has rows
Normalize(t) ==
    LET columns == Rename(Flatten(t))
        f == [columns |-> columns, data |-> t.data]
    IN IF ~ReqsPresent(columns) THEN Returned(EmptyFrame)
       ELSE LET r == ResetIndex(f, t)
            IN IF r.raised THEN Raised
               ELSE LET q == CoercePrices(r.frame)
                    IN IF q.raised THEN Raised ELSE CoerceVolume(q.frame)

\* lines 92-144: the body of the try statement
TryBody(fd) ==
    IF fd.download = "raise" THEN Raised
    ELSE IF fd.download = "empty"
    THEN IF fd.history = "raise" THEN Raised
         ELSE IF fd.history = "empty" THEN Returned(EmptyFrame)
         ELSE Normalize(fd.table)
    ELSE Normalize(fd.table)

\* the body without the except clause: an exception leaves the function
FetchNoExcept(fd) ==
    LET b == TryBody(fd)
    IN [frame |-> b.frame, escaped |-> b.raised]

\* lines 91-146: try: ... except Exception: return pd.DataFrame()
fetch_price_history(fd) ==
    LET b == TryBody(fd)
    IN [frame |-> IF b.raised THEN EmptyFrame ELSE b.frame, escaped |-> FALSE]

(***************************************************************************)
(* get_nifty500_tickers                                                    *)
(***************************************************************************)
K_symbol == <<"s","y","m","b","o","l">>

\* the member of a one-element set: The({e(x) : x \in {v}}) is e(v), v
\* computed once
The(S) == CHOOSE y \in S : TRUE
S_NS == <<".","N","S">>

\* line 79-82: the built-in list
Builtin ==
    << <<"R","E","L","I","A","N","C","E",".","N","S">>, <<"T","C","S",".","N","S">>, <<"I","N","F","Y",".","N","S">>,
       <<"H","D","F","C","B","A","N","K",".","N","S">>, <<"I","C","I","C","I","B","A","N","K",".","N","S">>, <<"H","I","N","D","U","N","I","L","V","R",".","N","S">>,
       <<"S","B","I","N",".","N","S">>, <<"B","H","A","R","T","I","A","R","T","L",".","N","S">>, <<"I","T","C",".","N","S">>,
       <<"K","O","T","A","K","B","A","N","K",".","N","S">> >>

\* line 68: the labels tried on the Wikipedia table, in order
Candidates ==
    << <<"s","y","m","b","o","l">>, <<"t","i","c","k","e","r">>, <<"t","i","c","k","e","r"," ","s","y","m","b","o","l">>, <<"c","o","d","e">>, <<"s","c","r","i","p">> >>

\* the symbol as it is, with no suffix added
NoSuffix(sym) == sym

\* s + ("" if s.endswith(".NS") else ".NS")
WithSuffix(sym) == IF EndsWith(sym, S_NS) THEN sym ELSE sym \o S_NS

\* s + ("" if s.endswith(".NS") else ".NS") for s in syms if s: the
\* stripped symbol sym before the rest of the list
Suffixed(sym, rest) == IF sym = <<>> THEN rest ELSE <<WithSuffix(sym)>> \o rest

\* lines 54-55 and 71-72: .dropna().astype(str).str.strip().tolist() and
\* the suffix, on the cells of the column from the i-th on
RECURSIVE Symbols(_, _)
Symbols(col, i) ==
    IF i > Len(col) THEN <<>>
    ELSE IF IsNaN(col[i]) THEN Symbols(col, i + 1)
    ELSE The({Suffixed(sym, rest) :
                 sym \in {Strip(col[i].s)}, rest \in {Symbols(col, i + 1)}})

\* df[sym_col]: a label naming two columns selects a frame, which has no
\* .str and raises
SymbolsOf(t, sym_col) ==
    IF CountCol(t, sym_col) # 1 THEN [raised |-> TRUE, syms |-> <<>>]
    ELSE The({[raised |-> FALSE, syms |-> Symbols(col, 1)] : col \in {Col(t, sym_col)}})

\* lines 48-57: the body of the first try statement; syms = <<>> stands
\* for falling out of it without returning
CsvBody(c) ==
    IF c.raise THEN [raised |-> TRUE, syms |-> <<>>]
    ELSE LET hits == {j \in 1..Len(c.columns) :
                          Lower(Strip(c.columns[j])) = K_symbol}
         IN IF hits = {} THEN [raised |-> FALSE, syms |-> <<>>]
            ELSE SymbolsOf(c, c.columns[CHOOSE j \in hits : \A i \in hits : j <= i])

\* max(tables, key=lambda t: t.shape[0]): the first of the largest
Largest(tables) ==
    tables[CHOOSE j \in 1..Len(tables) :
               /\ \A i \in 1..Len(tables) : NRows(tables[i]) <= NRows(tables[j])
               /\ \A i \in 1..(j - 1) : NRows(tables[i]) < NRows(tables[j])]

\* lines 68-74: the loop over the candidates, from the k-th on
RECURSIVE CandidateLoop(_, _)
CandidateLoop(t, k) ==
    IF k > Len(Candidates) THEN [raised |-> FALSE, syms |-> <<>>]
    ELSE LET cols == [j \in 1..Len(t.columns) |-> Lower(Strip(t.columns[j]))]
             hits == {j \in 1..Len(cols) : cols[j] = Candidates[k]}
         IN IF hits = {} THEN CandidateLoop(t, k + 1)
            ELSE The({IF r.raised \/ r.syms # <<>> THEN r ELSE CandidateLoop(t, k + 1) :
                         r \in {SymbolsOf(t, t.columns[CHOOSE j \in hits : \A i \in hits : j <= i])}})

\* lines 63-74: the body of the second try statement
WikiBody(w) ==
    IF w.raise THEN [raised |-> TRUE, syms |-> <<>>]
    ELSE IF w.tables = <<>> THEN [raised |-> FALSE, syms |-> <<>>]
    ELSE The({CandidateLoop(t, 1) : t \in {Largest(w.tables)}})

\* lines 58-59 and 75-76: except Exception: pass
Except(body) ==
    [escaped |-> FALSE, syms |-> IF body.raised THEN <<>> ELSE body.syms]

(***************************************************************************)
(* The inputs: what the quote provider and the ticker sources answer       *)
(***************************************************************************)
MaxRows == 3
CloseVals == {1, 2, 3}
Times == {1, 2}

Canon == <<S_AdjClose, S_Close, S_Open, S_High, S_Low, S_Volume>>

FlatLayouts ==
    { Canon,
      <<S_Open, S_High, S_Low, S_Close, S_Volume, <<"D","i","v","i","d","e","n","d","s">>>>,
      <<S_Open, S_High, S_Close, S_Volume>>,
      <<S_Open, S_High, S_Low, S_Close>>,
      <<<<"o","p","e","n">>, <<"h","i","g","h">>, <<"l","o","w">>, <<"c","l","o","s","e">>, <<"v","o","l","u","m","e">>>>,
      <<S_Open, S_High, S_Low, S_Close, <<"P","r","e","v"," ","C","l","o","s","e">>, S_Volume>>,
      <<S_Open, S_High, S_Low, S_Close, <<"A","d","j"," ","O","p","e","n">>, <<"A","d","j"," ","L","o","w">>, S_AdjClose>>,
      <<S_Open, <<"A","d","j"," ","H","i","g","h">>, S_Low, S_Close, S_Volume>>,
      <<S_Open, S_High, S_Low, <<"C","l","o","s","e"," ","V","o","l","u","m","e">>, S_Volume>>,
      <<<<"O","p","e","n","H","i","g","h">>, S_High, S_Low, S_Close, S_Volume>> }

\* the two-level header yfinance gives: (price field, ticker)
TwoLevel(ticker) == [j \in 1..Len(Canon) |-> <<Canon[j], ticker>>]

Layouts ==
    [multi : {FALSE}, columns : FlatLayouts]
    \cup [multi : {TRUE},
          columns : {TwoLevel(<<"T","C","S",".","N","S">>), TwoLevel(<<"G","L","O","W",".","N","S">>),
                     TwoLevel(None), TwoLevel(<<>>)}]

\* a table from its layout, its index and the cell at row i, column j
Table(layout, index_name, index, Cell(_, _)) ==
    [multi |-> layout.multi, columns |-> layout.columns,
     index_name |-> index_name, index |-> index,
     data |-> [j \in 1..Len(layout.columns) |->
                  [i \in 1..Len(index) |-> Cell(i, j)]]]

CanonLayout == [multi |-> FALSE, columns |-> Canon]

\* rows whose timestamps may repeat or run backwards and whose cells may
\* be missing, unparsable text, or text that parses
RowKinds == {"whole", "open_nan", "close_text", "close_digits", "volume_nan"}

RowCell(row, label) ==
    IF row.kind = "open_nan" /\ label = S_Open THEN NaN
    ELSE IF row.kind = "close_text" /\ label = S_Close THEN Text(<<"x">>)
    ELSE IF row.kind = "close_digits" /\ label = S_Close THEN Text(<<"1","2">>)
    ELSE IF row.kind = "volume_nan" /\ label = S_Volume THEN NaN
    ELSE Num(2)

RowTables ==
    { LET Cell(i, j) == RowCell(rows[i], Canon[j])
      IN Table(CanonLayout, S_Date, [i \in 1..Len(rows) |-> Num(rows[i].t)], Cell) :
        rows \in UNION { [1..n -> [t : Times, kind : RowKinds]] : n \in 1..MaxRows } }

\* whole rows in timestamp order, every price field equal to the close
CloseTables ==
    { LET Cell(i, j) == Num(closes[i])
      IN Table(CanonLayout, S_Date, [i \in 1..Len(closes) |-> Num(i)], Cell) :
        closes \in UNION { [1..n -> CloseVals] : n \in 1..MaxRows } }

\* series one bar longer than an SMA window: lead bars at one price, the
\* rest at another
LongTables ==
    { LET Cell(i, j) == Num(IF i <= lead THEN a ELSE b)
      IN Table(CanonLayout, S_Date, [i \in 1..(w + 1) |-> Num(i)], Cell) :
        w \in {Win20, Win50, Win200}, lead \in {1, 2}, a \in CloseVals, b \in CloseVals }

LayoutTables ==
    { LET Cell(i, j) == Num(i + j)
      IN Table(layout, index_name, <<Num(1), Num(2)>>, Cell) :
        layout \in Layouts, index_name \in {S_Date, None, S_Close} }

AnyTable == CHOOSE t \in CloseTables : TRUE

Feeds ==
    [download : {"table"}, history : {"table"},
     table : LayoutTables \cup RowTables \cup CloseTables \cup LongTables]
    \cup [download : {"empty"}, history : {"table"}, table : LayoutTables]
    \cup [download : {"empty", "raise"}, history : {"empty", "raise"}, table : {AnyTable}]

\* no fetch: the caller brings its own bars
Unused == [download |-> "unused", history |-> "unused", table |-> AnyTable]

\* frames a caller hands to add_technical_indicators itself: bars with no
\* rows, and a frame that has no Close column
CallerFrames ==
    { [columns |-> <<S_Date, S_Open, S_High, S_Low, S_Close, S_Volume>>,
       data |-> <<<<>>, <<>>, <<>>, <<>>, <<>>, <<>>>>],
      [columns |-> <<S_Date, S_Open>>, data |-> <<<<Num(1)>>, <<Num(2)>>>>] }

SymbolColumns ==
    { <<Text(<<"T","C","S">>), Text(<<"I","N","F","Y",".","N","S">>)>>,
      <<Text(<<" ","S","B","I","N"," ">>)>>,
      <<Text(<<"I","T","C">>), NaN>>,
      <<NaN, Text(<<" "," ">>)>>,
      <<>> }

SourceTable(columns, syms) ==
    [columns |-> columns,
     data |-> [j \in 1..Len(columns) |->
                  IF j = Len(columns) THEN syms
                  ELSE [i \in 1..Len(syms) |-> Text(<<"C","o">>)]]]

NoTable == [columns |-> <<>>, data |-> <<>>]

CsvAnswers ==
    { [raise |-> TRUE, columns |-> <<>>, data |-> <<>>] }
    \cup { LET t == SourceTable(columns, syms)
           IN [raise |-> FALSE, columns |-> t.columns, data |-> t.data] :
             columns \in { <<<<"C","o","m","p","a","n","y"," ","N","a","m","e">>, <<"S","y","m","b","o","l">>>>,
                           <<<<"C","o","m","p","a","n","y"," ","N","a","m","e">>, <<" ","S","Y","M","B","O","L"," ">>>>,
                           <<<<"C","o","m","p","a","n","y"," ","N","a","m","e">>, <<"T","i","c","k","e","r">>>>,
                           <<<<"S","y","m","b","o","l">>, <<"S","y","m","b","o","l">>>> },
             syms \in SymbolColumns }

WikiTables ==
    { SourceTable(columns, syms) :
        columns \in { <<<<"C","o","m","p","a","n","y">>, <<"S","y","m","b","o","l">>>>,
                      <<<<"C","o","m","p","a","n","y">>, <<"T","i","c","k","e","r"," ","s","y","m","b","o","l">>>>,
                      <<<<"C","o","m","p","a","n","y">>, <<"I","S","I","N">>>>,
                      <<<<"C","o","d","e">>, <<"C","o","d","e">>>> },
        syms \in SymbolColumns }
    \cup { \* a blank Symbol column beside a Scrip column that has symbols
           [columns |-> <<<<"S","y","m","b","o","l">>, <<"S","c","r","i","p">>>>,
            data |-> <<<<NaN>>, <<Text(<<"W","I","P","R","O">>)>>>>] }

WikiAnswers ==
    { [raise |-> TRUE, tables |-> <<>>], [raise |-> FALSE, tables |-> <<>>] }
    \cup { [raise |-> FALSE, tables |-> <<t>>] : t \in WikiTables }
    \cup { [raise |-> FALSE,
            tables |-> << SourceTable(<<<<"S","y","m","b","o","l">>>>, <<Text(<<"L","T">>)>>),
                          SourceTable(<<<<"S","y","m","b","o","l">>>>, syms) >>] :
             syms \in SymbolColumns }

(***************************************************************************)
(* The price pipeline: lines 265-267 of the script, and direct calls       *)
(***************************************************************************)
\* cols_map as line 122 sees it; empty when the body never gets there
ColsMapOf(fd) ==
    IF fd.download = "table" \/ (fd.download = "empty" /\ fd.history = "table")
    THEN LET flat == Flatten(fd.table)
         IN [j \in 1..Len(flat) |-> <<flat[j], ColsMap(flat[j])>>]
    ELSE <<>>

\* df = fetch_price_history(symbol, ...)
FetchPriceHistory ==
    /\ pc = "start"
    /\ feed # Unused
    /\ LET r == fetch_price_history(feed)
       IN /\ df' = r.frame
          /\ escaped' = IF r.escaped THEN escaped \cup {"fetch_price_history"}
                        ELSE escaped
    /\ cols_map' = ColsMapOf(feed)
    /\ pc' = "fetched"
    /\ UNCHANGED <<feed, d>>
    /\ UNCHANGED tickerVars

\* a caller that brings its own bars instead of fetching them
CallerFrame ==
    /\ pc = "start"
    /\ feed = Unused
    /\ \E f \in CallerFrames : df' = f
    /\ pc' = "fetched"
    /\ UNCHANGED <<feed, d, cols_map, escaped>>
    /\ UNCHANGED tickerVars

\* lines 266-267: the script calls the engine only on a non-empty frame
ScriptSkipsEmpty ==
    /\ pc = "fetched"
    /\ IsEmpty(df)
    /\ pc' = "skipped"
    /\ UNCHANGED <<feed, df, d, cols_map, escaped>>
    /\ UNCHANGED tickerVars

\* the guard of line 218, absent
HasCloseAlways(f) == TRUE

\* line 218: "Close" in d.columns
HasClose(f) == HasCol(f, S_Close)

\* add_technical_indicators, lines 217-224: the copy, the guard, the close
\* series and the SMA columns.  d["Close"] raises KeyError when no column
\* has the label and to_numeric raises TypeError when two have it.
IndicatorsSma ==
    /\ pc = "fetched"
    /\ IF ~HasClose(df)
       THEN d' = df /\ pc' = "done" /\ UNCHANGED escaped
       ELSE IF CountCol(df, S_Close) # 1
       THEN /\ d' = df
            /\ pc' = "done"
            /\ escaped' = escaped \cup {"add_technical_indicators"}
       ELSE d' = SmaColumns(df) /\ pc' = "ew" /\ UNCHANGED escaped
    /\ UNCHANGED <<feed, df, cols_map>>
    /\ UNCHANGED tickerVars

\* the exponentially weighted columns are rationals whose denominators
\* grow with every bar; past three bars they leave the range of 32-bit
\* integers, and the model follows the function no further
Exact(f) == NRows(f) \in 0..3

\* add_technical_indicators, lines 225-244
IndicatorsEw ==
    /\ pc = "ew"
    /\ Exact(d)
    /\ d' = EwColumns(d)
    /\ pc' = "done"
    /\ UNCHANGED <<feed, df, cols_map, escaped>>
    /\ UNCHANGED tickerVars

(***************************************************************************)
(* get_nifty500_tickers, line 254 of the script                            *)
(***************************************************************************)
\* lines 45-59: the NSE CSV
TryCsv ==
    /\ tpc = "csv"
    /\ consulted' = Append(consulted, "csv")
    /\ \E r \in {Except(body) : body \in {CsvBody(src.csv)}} :
          /\ escaped' = IF r.escaped THEN escaped \cup {"get_nifty500_tickers"}
                        ELSE escaped
          /\ IF r.escaped THEN tpc' = "done" /\ UNCHANGED tickers
             ELSE IF r.syms # <<>> THEN tickers' = r.syms /\ tpc' = "done"
             ELSE tpc' = "wiki" /\ UNCHANGED tickers
    /\ UNCHANGED src
    /\ UNCHANGED priceVars

\* lines 61-76: the Wikipedia table
TryWiki ==
    /\ tpc = "wiki"
    /\ consulted' = Append(consulted, "wiki")
    /\ \E r \in {Except(body) : body \in {WikiBody(src.wiki)}} :
          /\ escaped' = IF r.escaped THEN escaped \cup {"get_nifty500_tickers"}
                        ELSE escaped
          /\ IF r.escaped THEN tpc' = "done" /\ UNCHANGED tickers
             ELSE IF r.syms # <<>> THEN tickers' = r.syms /\ tpc' = "done"
             ELSE tpc' = "builtin" /\ UNCHANGED tickers
    /\ UNCHANGED src
    /\ UNCHANGED priceVars

\* lines 78-82: the built-in list
ReturnBuiltin ==
    /\ tpc = "builtin"
    /\ consulted' = Append(consulted, "builtin")
    /\ tickers' = Builtin
    /\ tpc' = "done"
    /\ UNCHANGED <<src, escaped>>
    /\ UNCHANGED priceVars

(***************************************************************************)
(* Specifications                                                          *)
(***************************************************************************)
NoAnswer == [csv |-> [raise |-> TRUE, columns |-> <<>>, data |-> <<>>],
             wiki |-> [raise |-> TRUE, tables |-> <<>>]]

\* the price pipeline, the ticker list already returned
Init ==
    /\ feed \in Feeds \cup {Unused}
    /\ pc = "start"
    /\ df = EmptyFrame
    /\ d = EmptyFrame
    /\ cols_map = <<>>
    /\ escaped = {}
    /\ src = NoAnswer
    /\ tpc = "done"
    /\ consulted = <<"csv", "wiki", "builtin">>
    /\ tickers = Builtin

Next ==
    \/ FetchPriceHistory
    \/ CallerFrame
    \/ ScriptSkipsEmpty
    \/ IndicatorsSma
    \/ IndicatorsEw

Spec == Init /\ [][Next]_vars

\* the ticker universe, before any price is fetched
InitTickers ==
    /\ src \in [csv : CsvAnswers, wiki : WikiAnswers]
    /\ tpc = "csv"
    /\ consulted = <<>>
    /\ tickers = <<>>
    /\ escaped = {}
    /\ feed = [download |-> "raise", history |-> "raise", table |-> AnyTable]
    /\ pc = "start"
    /\ df = EmptyFrame
    /\ d = EmptyFrame
    /\ cols_map = <<>>

NextTickers == TryCsv \/ TryWiki \/ ReturnBuiltin

\* the function is straight-line code: once called it runs to its return
SpecTickers == InitTickers /\ [][NextTickers]_vars /\ WF_vars(NextTickers)

(***************************************************************************)
(* Properties                                                              *)
(***************************************************************************)
Prices == {S_Open, S_High, S_Low, S_Close}

\* the state holds what fetch_price_history returned for the feed
Fetched == feed # Unused /\ pc # "start"

\* the raw column that reconciliation names c
RawCol(c) ==
    feed.table.data[CHOOSE j \in 1..Len(cols_map) : cols_map[j][2] = c]

\* the cell cannot be read as a number: it is missing, or text that is
\* not a number
Unreadable(x) == x.k = "nan" \/ (x.k = "str" /\ ~IsDigits(x.s))

StrictlyIncreasing(x) == \A i \in 1..(Len(x) - 1) : Less(x[i], x[i + 1])

\* C1, as claimed: every row the normalizer returns has non-missing Open,
\* High, Low and Close, a row with a missing or unparsable price cell
\* being dropped.
C1_NoMissingPrice ==
    (Fetched /\ ~IsEmpty(df)) =>
        \A c \in Prices : \A i \in 1..NRows(df) : ~IsNaN(Col(df, c)[i])

\* C1, amended: the normalizer returns one row per row of the raw table,
\* and a price cell that is missing or fails numeric coercion is a missing
\* value in that row; a readable cell keeps its number.
C1_RowsKeptWithMissing ==
    (Fetched /\ ~IsEmpty(df)) =>
        /\ NRows(df) = Len(feed.table.index)
        /\ \A c \in Prices : \A i \in 1..NRows(df) :
              /\ Unreadable(RawCol(c)[i]) => IsNaN(Col(df, c)[i])
              /\ RawCol(c)[i].k = "num" => Col(df, c)[i] = RawCol(c)[i]
              /\ ~Unreadable(RawCol(c)[i]) => IsNum(Col(df, c)[i])

C1_Witness ==
    /\ Fetched /\ ~IsEmpty(df)
    /\ \E i \in 1..NRows(df) :
          RawCol(S_Close)[i].k = "str" /\ IsNaN(Col(df, S_Close)[i])

\* C2, as claimed: the rows the normalizer returns have strictly
\* increasing timestamps, whatever the order of the raw rows and whether
\* or not timestamps repeat.
C2_StrictlyIncreasing ==
    (Fetched /\ ~IsEmpty(df)) => StrictlyIncreasing(Col(df, S_Date))

\* C2, amended: the normalizer returns the rows in the order of the raw
\* table, one per raw row, neither sorted nor collapsed: the Date column
\* is the raw index, so it is strictly increasing exactly when the raw
\* index is.
C2_InputOrderKept ==
    (Fetched /\ ~IsEmpty(df)) =>
        /\ Col(df, S_Date) = feed.table.index
        /\ StrictlyIncreasing(Col(df, S_Date)) <=> StrictlyIncreasing(feed.table.index)

C2_Witness ==
    /\ Fetched /\ NRows(df) >= 2
    /\ ~Less(Col(df, S_Date)[1], Col(df, S_Date)[2])

Has(key, c) == Contains(key, Lower(c))

\* C3, as claimed: each reconciliation rule holds for every label,
\* whatever other keywords the label contains.
C3_EveryRuleEveryLabel ==
    \A j \in 1..Len(cols_map) :
        LET c == cols_map[j][1]
            to == cols_map[j][2]
        IN /\ (Has(K_adj, c) /\ Has(K_close, c)) => to = S_AdjClose
           /\ (Has(K_close, c) /\ ~Has(K_adj, c)) => to = S_Close
           /\ (Has(K_open, c) /\ ~Has(K_adj, c)) => to = S_Open
           /\ (Has(K_low, c) /\ ~Has(K_adj, c)) => to = S_Low
           /\ Has(K_high, c) => to = S_High
           /\ Has(K_volume, c) => to = S_Volume

\* C3, amended: the rules are tried in the order Open (open, no adj),
\* High (high), Low (low, no adj), Adj Close (adj and close), Close
\* (close), Volume (volume) and the first that matches decides; a label
\* that matches none keeps its name.  For the columns Adj Close, Close,
\* Open, High, Low, Volume the canonical Close is the Close column.
C3_FirstMatchDecides ==
    /\ \A j \in 1..Len(cols_map) :
          LET c == cols_map[j][1]
              to == cols_map[j][2]
              open == Has(K_open, c) /\ ~Has(K_adj, c)
              high == ~open /\ Has(K_high, c)
              low == ~open /\ ~high /\ Has(K_low, c) /\ ~Has(K_adj, c)
              adjclose == ~open /\ ~high /\ ~low /\ Has(K_adj, c) /\ Has(K_close, c)
              close == ~open /\ ~high /\ ~low /\ ~adjclose /\ Has(K_close, c)
              volume == ~open /\ ~high /\ ~low /\ ~adjclose /\ ~close /\ Has(K_volume, c)
          IN /\ open => to = S_Open
             /\ high => to = S_High
             /\ low => to = S_Low
             /\ adjclose => to = S_AdjClose
             /\ close => to = S_Close
             /\ volume => to = S_Volume
             /\ ~(open \/ high \/ low \/ adjclose \/ close \/ volume) => to = c
    /\ (Len(cols_map) = Len(Canon) /\ \A j \in 1..Len(Canon) : cols_map[j][1] = Canon[j])
          => \A j \in 1..Len(Canon) : cols_map[j][2] = Canon[j]

C3_Witness ==
    \E j \in 1..Len(cols_map) :
        /\ Has(K_close, cols_map[j][1]) /\ ~Has(K_adj, cols_map[j][1])
        /\ cols_map[j][2] = S_Low

\* some required price column is absent after reconciliation
RequiredAbsent ==
    /\ cols_map # <<>>
    /\ \E r \in Prices : \A j \in 1..Len(cols_map) : cols_map[j][2] # r

\* C4: when Open, High, Low or Close is absent after reconciliation the
\* normalizer returns an empty table; no exception escapes it, whatever
\* the input; and the result is either empty or a table that carries
\* Date, Open, High, Low, Close and Volume.
C4_EmptyOrCanonical ==
    Fetched =>
        /\ "fetch_price_history" \notin escaped
        /\ RequiredAbsent => df = EmptyFrame
        /\ \/ df = EmptyFrame
           \/ \A c \in Prices \cup {S_Date, S_Volume} : HasCol(df, c)

C4_Witness == Fetched /\ RequiredAbsent /\ df = EmptyFrame

\* the engine has returned a frame with its indicator columns
Computed == pc = "done" /\ HasCol(d, S_RSI14)

Macds == {S_MACD, S_MACD_signal, S_MACD_hist}

\* C5, as claimed: for a Close series with fewer than 2 points RSI14, MACD,
\* MACD signal and MACD histogram are undefined at every point.
C5_AllUndefined ==
    (Computed /\ NRows(d) < 2) =>
        \A c \in Macds \cup {S_RSI14} : \A i \in 1..NRows(d) : IsNaN(Col(d, c)[i])

\* C5, amended: for a Close series with fewer than 2 points the engine
\* does not fail and RSI14 is undefined at every point; MACD, MACD signal
\* and MACD histogram are 0 at the single point when its close is a
\* number (both EMAs are seeded with it) and undefined when it is missing.
C5_RsiUndefinedMacdZero ==
    (Computed /\ NRows(d) < 2) =>
        /\ "add_technical_indicators" \notin escaped
        /\ \A c \in Macds \cup {S_RSI14} : Len(Col(d, c)) = NRows(d)
        /\ \A i \in 1..NRows(d) :
              /\ IsNaN(Col(d, S_RSI14)[i])
              /\ \A c \in Macds :
                    Col(d, c)[i] = IF IsNaN(CloseOf(d)[i]) THEN NaN ELSE Num(0)

C5_Witness ==
    /\ Computed /\ NRows(d) = 1
    /\ IsNum(CloseOf(d)[1]) /\ Col(d, S_MACD)[1] = Num(0)

\* the EMA(span=14) of the down moves of close
AverageLoss(close) == EwmMean(NegSeries(ClipUpper(Diff(close))), RsiSpan)

Constant(x) == \A i \in 1..Len(x) : x[i] = x[1]

\* C6: wherever the EMA(14) average loss is exactly 0, RSI14 is undefined,
\* never 100 and never infinite; for a strictly increasing and for a
\* constant Close series RSI14 is undefined at every index.
C6_ZeroLossUndefined ==
    Computed =>
        LET close == CloseOf(d)
            rsi == Col(d, S_RSI14)
            loss == AverageLoss(close)
        IN /\ \A i \in 1..Len(rsi) :
                 /\ rsi[i].k # "inf"
                 /\ IsZero(loss[i]) => IsNaN(rsi[i])
           /\ (StrictlyIncreasing(close) \/ Constant(close)) =>
                 \A i \in 1..Len(rsi) : IsNaN(rsi[i])

C6_Witness ==
    /\ Computed /\ NRows(d) >= 3
    /\ StrictlyIncreasing(CloseOf(d))
    /\ IsZero(AverageLoss(CloseOf(d))[3])

\* x[lo] + ... + x[hi]
RECURSIVE Total(_, _, _)
Total(x, lo, hi) ==
    IF lo > hi THEN Num(0)
    ELSE IF lo = hi THEN x[lo]
    ELSE Add(Total(x, lo, (lo + hi) \div 2), Total(x, (lo + hi) \div 2 + 1, hi))

Max(a, b) == IF a >= b THEN a ELSE b

\* mean(x[max(first, i-w+1) .. i])
WindowMean(x, w, i) ==
    Div(Total(x, Max(1, i - w + 1), i), Num(i - Max(1, i - w + 1) + 1))

AllNumbers(x) == \A i \in 1..Len(x) : IsNum(x[i])

HasSma == pc \in {"ew", "done"} /\ HasCol(d, S_SMA20)

\* C7: for every non-empty Close series and w in {20, 50, 200} the SMA
\* column is, at every index i, the mean of the closes from max(first,
\* i-w+1) to i: the mean of the points so far over the first w-1 points,
\* never undefined.
C7_GrowThenSlide ==
    (HasSma /\ AllNumbers(CloseOf(d))) =>
        LET close == CloseOf(d)
        IN /\ \A i \in 1..Len(close) :
                 Col(d, S_SMA20)[i] = WindowMean(close, Win20, i)
           /\ \A i \in 1..Len(close) :
                 Col(d, S_SMA50)[i] = WindowMean(close, Win50, i)
           /\ \A i \in 1..Len(close) :
                 Col(d, S_SMA200)[i] = WindowMean(close, Win200, i)

C7_Witness ==
    /\ HasSma /\ NRows(d) = Win200 + 1
    /\ CloseOf(d)[1] # CloseOf(d)[NRows(d)]
    /\ Col(d, S_SMA200)[NRows(d)] = CloseOf(d)[NRows(d)]

\* y[first] = x[first] and y[i] = a*x[i] + (1-a)*y[i-1], a = 2/(s+1)
Recurrence(y, x, span) ==
    /\ Len(y) = Len(x)
    /\ Len(x) >= 1 => y[1] = x[1]
    /\ \A i \in 2..Len(x) :
          y[i] = Add(Mul(Q(2, span + 1), x[i]), Mul(Q(span - 1, span + 1), y[i - 1]))

\* C8: for every non-empty Close series the EMA20 and EMA50 columns
\* follow ema[first] = close[first], ema[i] = a*close[i] + (1-a)*ema[i-1]
\* with a = 2/(s+1), and the MACD signal follows the same recurrence with
\* span 9 on the MACD series, seeded with its first value.
C8_EmaRecurrence ==
    (Computed /\ AllNumbers(CloseOf(d))) =>
        /\ Recurrence(Col(d, S_EMA20), CloseOf(d), Span20)
        /\ Recurrence(Col(d, S_EMA50), CloseOf(d), Span50)
        /\ Recurrence(Col(d, S_MACD_signal), Col(d, S_MACD), MacdSignal)

C8_Witness ==
    /\ Computed /\ NRows(d) = 3 /\ AllNumbers(CloseOf(d))
    /\ CloseOf(d)[1] # CloseOf(d)[2] /\ CloseOf(d)[2] # CloseOf(d)[3]
    /\ Col(d, S_MACD_signal)[3] # Col(d, S_MACD)[3]

Indicators == {S_SMA20, S_SMA50, S_SMA200, S_EMA20, S_EMA50, S_RSI14, S_MACD}

\* C9, as claimed: on an empty bar sequence, such as the empty result of
\* the normalizer, the engine returns without error a series of length 0
\* for each of SMA20, SMA50, SMA200, EMA20, EMA50, RSI14 and MACD.
C9_EmptySeriesPresent ==
    (pc = "done" /\ NRows(df) = 0) =>
        /\ "add_technical_indicators" \notin escaped
        /\ \A c \in Indicators : HasCol(d, c) /\ Len(Col(d, c)) = 0

\* C9, amended: on an empty bar sequence the engine returns without
\* error; when the table carries a Close column every indicator is
\* present as a series of length 0, and when it carries none, as the
\* empty result of the normalizer does, the table is returned unchanged,
\* with no indicator column.
C9_EmptyUnchangedWithoutClose ==
    (pc = "done" /\ NRows(df) = 0) =>
        /\ "add_technical_indicators" \notin escaped
        /\ HasCol(df, S_Close) =>
              \A c \in Indicators : HasCol(d, c) /\ Len(Col(d, c)) = 0
        /\ ~HasCol(df, S_Close) => d = df

C9_Witness ==
    /\ pc = "done" /\ Fetched /\ RequiredAbsent
    /\ df = EmptyFrame /\ d = EmptyFrame

IsPrefix(x, y) == Len(x) <= Len(y) /\ \A i \in 1..Len(x) : x[i] = y[i]

Nothing(body) == body.raised \/ body.syms = <<>>

C10_Safe ==
    /\ "get_nifty500_tickers" \notin escaped
    /\ IsPrefix(consulted, <<"csv", "wiki", "builtin">>)
    /\ Len(consulted) >= 2 => Nothing(CsvBody(src.csv))
    /\ Len(consulted) >= 3 => Nothing(WikiBody(src.wiki))
    /\ tpc = "done" =>
          /\ tickers # <<>>
          /\ \A i \in 1..Len(tickers) : EndsWith(tickers[i], S_NS)
    /\ tpc # "done" => tickers = <<>>

\* C10: whatever the two sources answer, get_nifty500_tickers returns a
\* non-empty list whose tickers all end with ".NS"; the sources are tried
\* in the order CSV, Wikipedia, built-in list, a later one only when every
\* earlier one raised or gave no symbols; no exception escapes; and the
\* function terminates.
C10_FallbackChain == []C10_Safe /\ <>(tpc = "done")

C10_Witness ==
    /\ tpc = "done" /\ consulted = <<"csv", "wiki">>
    /\ Nothing(CsvBody(src.csv)) /\ tickers # <<>>

====
